---- MODULE Spec2Model ----
(***************************************************************************)
(* Model of blue-jacket's Tradier REST API configuration                   *)
(* (src/data/tradier.rs): TradierRestApiConfig, its constructor `new`, and *)
(* the environment loader `load_from_env`.                                 *)
(*                                                                         *)
(* Text is modelled as a sequence of text units.  A unit stands for an     *)
(* indivisible piece of text; the unit InvalidUnit stands for a byte       *)
(* sequence that is not valid Unicode, which an environment value (an      *)
(* OsString) may contain but a Rust String or str may not.                 *)
(***************************************************************************)
EXTENDS Integers, Sequences, FiniteSets, TLC

\* ------------------------------------------------------------------ bounds
MaxLen == 2      \* longest environment value / token, in text units
MaxLines == 2    \* longest .env file, in lines

\* ------------------------------------------------------------- text model
InvalidUnit == "0xFF"
Units == {"a", "REDACTED", InvalidUnit}

RECURSIVE SeqsUpTo(_, _)
SeqsUpTo(S, n) ==
    IF n = 0 THEN {<<>>}
    ELSE LET shorter == SeqsUpTo(S, n - 1)
         IN  shorter \cup {Append(s, u) : s \in {q \in shorter : Len(q) = n - 1}, u \in S}

\* OsString: any unit sequence.  String: only valid Unicode.
OsStrings == SeqsUpTo(Units, MaxLen)
IsUnicode(v) == \A i \in 1..Len(v) : v[i] # InvalidUnit
Strings == {v \in OsStrings : IsUnicode(v)}

IsSubstring(s, t) ==
    \E i \in 0..(Len(t) - Len(s)) : SubSeq(t, i + 1, i + Len(s)) = s

\* -------------------------------------------------------------- constants
TokenVar == "TRADIER_API_ACCESS_TOKEN"
OtherVar == "RUST_LOG"
Keys == {TokenVar, OtherVar}
SandboxUrl == <<"https://sandbox.tradier.com/v1/">>
ProductionUrl == <<"https://api.tradier.com/v1/">>

\* Cow<'static, str>: a static reference or an owned heap string.
Borrowed(s) == [tag |-> "Borrowed", str |-> s]
Owned(s) == [tag |-> "Owned", str |-> s]
\* Reading a Cow dereferences it to its str, whatever the variant.
Deref(c) == c.str
Endpoints == {Borrowed(SandboxUrl), Borrowed(ProductionUrl), Owned(SandboxUrl), Owned(ProductionUrl)}

\* secrecy::SecretString: an opaque box around the plaintext.
SecretStringNew(s) == [inner |-> s]
ExposeSecret(h) == h.inner

\* ------------------------------------------------------------ environment
Unset == [present |-> FALSE, val |-> <<>>]
Present(v) == [present |-> TRUE, val |-> v]

NotPresent == [kind |-> "NotPresent"]
NotUnicode(v) == [kind |-> "NotUnicode", os |-> v]
VarOk(s) == [tag |-> "Ok", value |-> s]
VarErr(e) == [tag |-> "Err", err |-> e]

\* Variant: an unset variable reads as the empty string.
EnvVarOrDefault(e, key) ==
    IF ~e[key].present THEN VarOk(<<>>)
    ELSE IF ~IsUnicode(e[key].val) THEN VarErr(NotUnicode(e[key].val))
    ELSE VarOk(e[key].val)

\* std::env::var: NotPresent when unset, NotUnicode carrying the raw value
\* when the value is not valid Unicode, the value otherwise.
EnvVar(e, key) ==
    IF ~e[key].present THEN VarErr(NotPresent)
    ELSE IF ~IsUnicode(e[key].val) THEN VarErr(NotUnicode(e[key].val))
    ELSE VarOk(e[key].val)

SetVar(e, key, v) == [e EXCEPT ![key] = Present(v)]

\* .env file: missing, or a sequence of lines; a line is KEY=VALUE or
\* malformed.  Values parsed from the file are Strings.
Missing == <<[kind |-> "missing"]>>
Malformed == [kind |-> "malformed"]
Pair(k, v) == [kind |-> "pair", key |-> k, value |-> v]
FileValues == {v \in Strings : Len(v) <= 1}
Lines == {Malformed} \cup {Pair(TokenVar, v) : v \in FileValues} \cup {Pair(OtherVar, <<"a">>)}
Files == {Missing} \cup SeqsUpTo(Lines, MaxLines)

\* Variant: the file overrides variables that are already set.
AlwaysSet(e, key) == TRUE

\* dotenv's Iter::load sets a key only when env::var(key) is an error.
NeedsSet(e, key) == EnvVar(e, key).tag = "Err"
LoadItem(e, item) ==
    IF NeedsSet(e, item.key) THEN SetVar(e, item.key, item.value) ELSE e

RECURSIVE LoadItems(_, _, _)
LoadItems(e, f, i) ==
    IF i > Len(f) THEN e
    ELSE IF f[i].kind = "malformed" THEN e
    ELSE LoadItems(LoadItem(e, f[i]), f, i + 1)

\* dotenv::dotenv().ok(): a missing file, or the first malformed line, ends
\* the merge; the error is discarded.
Dotenv(e, f) == IF f = Missing THEN e ELSE LoadItems(e, f, 1)

\* Variant: the endpoint argument is dropped for the sandbox default.
NewSandboxOnly(endpoint, access_token) ==
    [endpoint |-> Borrowed(SandboxUrl), access_token |-> access_token]

\* ---------------------------------------------------------------- config
New(endpoint, access_token) == [endpoint |-> endpoint, access_token |-> access_token]

None == [tag |-> "None"]
Ok(c) == [tag |-> "Ok", cfg |-> c]
Err(e) == [tag |-> "Err", err |-> e]

\* load_from_env run without interference: the environment it leaves and
\* the Result it returns.
LoadFromEnv(e, f) ==
    LET merged == Dotenv(e, f)
        access_token == EnvVar(merged, TokenVar)
    IN  [env |-> merged,
         result |-> IF access_token.tag = "Err" THEN Err(access_token.err)
                    ELSE Ok(New(Borrowed(SandboxUrl), SecretStringNew(access_token.value)))]

\* --------------------------------------------------------------- Debug text
\* <str as Debug>::fmt quotes the text.
DebugStr(s) == <<"\"">> \o s \o <<"\"">>

\* Variant: the handle formats its contents like a plain string.
DebugSecretPlain(h) == <<"SecretBox<str>(">> \o DebugStr(h.inner) \o <<")">>

\* secrecy's Debug for the secret handle prints a fixed placeholder.
DebugSecret(h) == <<"SecretBox<str>([", "REDACTED", "])">>

\* #[derive(Debug)] on TradierRestApiConfig.
DebugConfig(c) ==
    <<"TradierRestApiConfig { endpoint: ">> \o DebugStr(Deref(c.endpoint))
        \o <<", access_token: ">> \o DebugSecret(c.access_token) \o <<" }">>

\* std::env::VarError as Display and as Debug.
DisplayVarError(e) ==
    IF e.kind = "NotPresent" THEN <<"environment variable not found">>
    ELSE <<"environment variable was not valid unicode: ">> \o DebugStr(e.os)
DebugVarError(e) ==
    IF e.kind = "NotPresent" THEN <<"NotPresent">>
    ELSE <<"NotUnicode(">> \o DebugStr(e.os) \o <<")">>

\* Variant: the config is rebuilt around the new endpoint.
RebuildWithEndpoint(c, e) == [endpoint |-> e, access_token |-> SecretStringNew(<<>>)]

\* `config.endpoint = e` on a `let mut config`.
AssignEndpoint(c, e) == [c EXCEPT !.endpoint = e]

\* ------------------------------------------------------------------ state
Tasks == {"A", "B"}

VARIABLES
    env,        \* process environment: Keys -> Unset / Present(value)
    file,       \* the .env file in the working directory
    env0,       \* the environment before any load ran
    pc,         \* per task: position inside load_from_env
    idx,        \* per task: next line of the dotenv iterator
    tok,        \* per task: the local `access_token`
    result,     \* per task: what the awaited call returned
    atCall,     \* per task: the credential variable when the call began
    atLookup,   \* per task: the credential variable at env::var
    config,     \* the caller's `let mut config` binding
    made,       \* the arguments and value of the call to `new`
    loaded,     \* the Result of the caller's own load_from_env
    assigned,   \* the last endpoint assigned to config.endpoint
    shown       \* the last Debug text produced, with the config it shows

loaderVars == <<pc, idx, tok, result, atCall, atLookup>>
valueVars == <<config, made, loaded, assigned, shown>>
vars == <<env, file, env0, pc, idx, tok, result, atCall, atLookup,
          config, made, loaded, assigned, shown>>

Envs == {[k \in Keys |-> IF k = TokenVar THEN x ELSE Unset] :
            x \in {Unset} \cup {Present(v) : v \in OsStrings}}

NoValue == [tag |-> "None"]
Some(x) == [tag |-> "Some", val |-> x]

\* ----------------------------------------- two concurrent load_from_env
Init ==
    /\ env \in Envs
    /\ file \in Files
    /\ env0 = env
    /\ pc = [t \in Tasks |-> "start"]
    /\ idx = [t \in Tasks |-> 1]
    /\ tok = [t \in Tasks |-> <<>>]
    /\ result = [t \in Tasks |-> None]
    /\ atCall = [t \in Tasks |-> NoValue]
    /\ atLookup = [t \in Tasks |-> NoValue]
    /\ config = None
    /\ made = NoValue
    /\ loaded = None
    /\ assigned = NoValue
    /\ shown = NoValue

\* The future is dropped before its first poll.  The body has no await
\* point, so once polled it runs to its return.
Drop(t) ==
    /\ pc[t] = "start"
    /\ pc' = [pc EXCEPT ![t] = "dropped"]
    /\ UNCHANGED <<env, file, env0, idx, tok, result, atCall, atLookup, valueVars>>

\* dotenv::dotenv(): find the file.
DotenvFind(t) ==
    /\ pc[t] = "start"
    /\ atCall' = [atCall EXCEPT ![t] = Some(env[TokenVar])]
    /\ pc' = [pc EXCEPT ![t] = IF file = Missing THEN "lookup" ELSE "item"]
    /\ UNCHANGED <<env, file, env0, idx, tok, result, atLookup, valueVars>>

\* Iter::load: take the next line and test env::var(key).is_err().
DotenvItem(t) ==
    /\ pc[t] = "item"
    /\ pc' = [pc EXCEPT ![t] =
                IF idx[t] > Len(file) THEN "lookup"
                ELSE IF file[idx[t]].kind = "malformed" THEN "lookup"
                ELSE IF NeedsSet(env, file[idx[t]].key) THEN "set"
                ELSE "item"]
    /\ idx' = [idx EXCEPT ![t] =
                IF idx[t] <= Len(file) /\ file[idx[t]].kind = "pair"
                   /\ ~NeedsSet(env, file[idx[t]].key)
                THEN idx[t] + 1 ELSE idx[t]]
    /\ UNCHANGED <<env, file, env0, tok, result, atCall, atLookup, valueVars>>

\* Iter::load: env::set_var(key, value).
DotenvSet(t) ==
    /\ pc[t] = "set"
    /\ env' = SetVar(env, file[idx[t]].key, file[idx[t]].value)
    /\ idx' = [idx EXCEPT ![t] = idx[t] + 1]
    /\ pc' = [pc EXCEPT ![t] = "item"]
    /\ UNCHANGED <<file, env0, tok, result, atCall, atLookup, valueVars>>

\* let access_token = env::var("TRADIER_API_ACCESS_TOKEN")?;
VarLookup(t) ==
    /\ pc[t] = "lookup"
    /\ atLookup' = [atLookup EXCEPT ![t] = Some(env[TokenVar])]
    /\ LET r == EnvVar(env, TokenVar)
       IN  IF r.tag = "Err"
           THEN /\ result' = [result EXCEPT ![t] = Err(r.err)]
                /\ pc' = [pc EXCEPT ![t] = "done"]
                /\ tok' = tok
           ELSE /\ tok' = [tok EXCEPT ![t] = r.value]
                /\ pc' = [pc EXCEPT ![t] = "construct"]
                /\ result' = result
    /\ UNCHANGED <<env, file, env0, idx, atCall, valueVars>>

\* Ok(Self::new(Cow::Borrowed(..), SecretString::new(access_token.into())))
Construct(t) ==
    /\ pc[t] = "construct"
    /\ result' = [result EXCEPT ![t] =
                    Ok(New(Borrowed(SandboxUrl), SecretStringNew(tok[t])))]
    /\ pc' = [pc EXCEPT ![t] = "done"]
    /\ UNCHANGED <<env, file, env0, idx, tok, atCall, atLookup, valueVars>>

Next ==
    \E t \in Tasks :
        \/ Drop(t)
        \/ DotenvFind(t)
        \/ DotenvItem(t)
        \/ DotenvSet(t)
        \/ VarLookup(t)
        \/ Construct(t)

Spec == Init /\ [][Next]_vars

\* ------------------------------- one caller: construct, reassign, format
InitValue ==
    /\ env \in Envs
    /\ file \in {f \in Files : f = Missing \/ Len(f) <= 1}
    /\ env0 = env
    /\ pc = [t \in Tasks |-> "unspawned"]
    /\ idx = [t \in Tasks |-> 1]
    /\ tok = [t \in Tasks |-> <<>>]
    /\ result = [t \in Tasks |-> None]
    /\ atCall = [t \in Tasks |-> NoValue]
    /\ atLookup = [t \in Tasks |-> NoValue]
    /\ config = None
    /\ made = NoValue
    /\ loaded = None
    /\ assigned = NoValue
    /\ shown = NoValue

\* let config = TradierRestApiConfig::new(e, SecretString::new(t.into()));
NewConfig(e, t) ==
    /\ config = None
    /\ made = NoValue
    /\ LET c == New(e, SecretStringNew(t))
       IN  /\ made' = Some([endpoint |-> e, token |-> t, value |-> c])
           /\ config' = Ok(c)
    /\ UNCHANGED <<env, file, env0, loaderVars, loaded, assigned, shown>>

\* let mut config = TradierRestApiConfig::load_from_env().await.expect(..);
LoadConfig ==
    /\ config = None
    /\ loaded = None
    /\ LET r == LoadFromEnv(env, file)
       IN  /\ env' = r.env
           /\ loaded' = r.result
           /\ config' = IF r.result.tag = "Ok" THEN r.result ELSE None
    /\ UNCHANGED <<file, env0, loaderVars, made, assigned, shown>>

\* config.endpoint = e;
SetEndpoint(e) ==
    /\ config.tag = "Ok"
    /\ config' = Ok(AssignEndpoint(config.cfg, e))
    /\ assigned' = Some(e)
    /\ UNCHANGED <<env, file, env0, loaderVars, made, loaded, shown>>

\* format!("{:?}", config) and format!("{:?}", config.access_token)
DebugFmt ==
    /\ config.tag = "Ok"
    /\ shown' = Some([cfg |-> config.cfg,
                      text |-> DebugConfig(config.cfg),
                      secretText |-> DebugSecret(config.cfg.access_token)])
    /\ UNCHANGED <<env, file, env0, loaderVars, config, made, loaded, assigned>>

NextValue ==
    \/ \E e \in Endpoints, t \in Strings : NewConfig(e, t)
    \/ LoadConfig
    \/ \E e \in Endpoints : SetEndpoint(e)
    \/ DebugFmt

SpecValue == InitValue /\ [][NextValue]_vars

TypeOK ==
    /\ env \in [Keys -> {Unset} \cup {Present(v) : v \in OsStrings}]
    /\ file \in Files
    /\ \A t \in Tasks : result[t].tag \in {"None", "Ok", "Err"}

\* ================================================================= claims
CredentialStates == {Unset} \cup {Present(v) : v \in OsStrings}
Returned(t) == pc[t] = "done"
Identifies(e, name) ==
    \/ IsSubstring(<<name>>, DisplayVarError(e))
    \/ IsSubstring(<<name>>, DebugVarError(e))

\* C1: whenever the environment holds TRADIER_API_ACCESS_TOKEN = v when
\* load_from_env is called, the call returns Ok with the sandbox endpoint
\* and a revealed token equal to v, for every value v.
C1_LoadReturnsEnvValue ==
    \A t \in Tasks :
        (Returned(t) /\ atCall[t].tag = "Some" /\ atCall[t].val.present) =>
            /\ result[t].tag = "Ok"
            /\ Deref(result[t].cfg.endpoint) = SandboxUrl
            /\ ExposeSecret(result[t].cfg.access_token) = atCall[t].val.val

\* C2: when the variable is unset at the lookup, load_from_env returns the
\* NotPresent (missing credential) error and no config; every outcome is a
\* complete config or an error, and nothing is observable before the return.
C2_MissingCredentialOrCompleteConfig ==
    \A t \in Tasks :
        /\ ~Returned(t) => result[t] = None
        /\ Returned(t) => result[t].tag \in {"Ok", "Err"}
        /\ result[t].tag = "Ok" =>
              /\ DOMAIN result[t] = {"tag", "cfg"}
              /\ result[t].cfg.endpoint \in Endpoints
              /\ result[t].cfg.access_token \in {SecretStringNew(x) : x \in Strings}
        /\ (Returned(t) /\ atLookup[t] = Some(Unset)) => result[t] = Err(NotPresent)

C2_Witness ==
    \E t \in Tasks :
        Returned(t) /\ atLookup[t] = Some(Unset) /\ result[t] = Err(NotPresent)

\* C3: for every endpoint e and non-empty token t, new(e, SecretString(t))
\* returns a config (never an error) whose endpoint reads e and whose
\* revealed token is t, and the call leaves the environment untouched.
C3_NewRoundTrip ==
    [][(made.tag = "None" /\ made'.tag = "Some" /\ made'.val.token # <<>>) =>
          /\ env' = env
          /\ config'.tag = "Ok"
          /\ config'.cfg = made'.val.value
          /\ Deref(made'.val.value.endpoint) = Deref(made'.val.endpoint)
          /\ made'.val.value.endpoint = made'.val.endpoint
          /\ ExposeSecret(made'.val.value.access_token) = made'.val.token]_vars

C3_Witness ==
    /\ made.tag = "Some"
    /\ made.val.token # <<>>
    /\ Deref(made.val.endpoint) = ProductionUrl
    /\ Deref(made.val.value.endpoint) = ProductionUrl
    /\ ExposeSecret(made.val.value.access_token) = made.val.token

\* C4: every config that load_from_env or new returns has a non-empty
\* access token.
C4_TokenNeverEmpty ==
    config.tag = "Ok" => ExposeSecret(config.cfg.access_token) # <<>>

\* C5: load_from_env returns a config whenever the variable is present at
\* the lookup, whatever its value and whatever the state of the .env file.
C5_AbsenceIsOnlyFailure ==
    \A t \in Tasks :
        (Returned(t) /\ atLookup[t].tag = "Some" /\ atLookup[t].val.present) =>
            result[t].tag = "Ok"

\* C6: the error load_from_env returns does not depend on the value of the
\* credential variable: started from an environment that differs only in
\* that value, a failing load returns the identical error.
C6_ErrorIndependentOfCredential ==
    \A t \in Tasks :
        result[t].tag = "Err" =>
            \A x \in CredentialStates :
                LET other == LoadFromEnv([env0 EXCEPT ![TokenVar] = x], file).result
                IN  other.tag = "Err" => other = result[t]

\* C7 as stated: the Debug text of the secret handle and of the config never
\* contains the (non-empty) plaintext token as a substring.
C7_DebugNeverContainsToken ==
    shown.tag = "Some" =>
        LET plain == ExposeSecret(shown.val.cfg.access_token)
        IN  plain # <<>> =>
                /\ ~IsSubstring(plain, shown.val.text)
                /\ ~IsSubstring(plain, shown.val.secretText)

\* C7 amended: the Debug text of the secret handle and of the config is the
\* same for every token value, so it carries nothing of the plaintext; it
\* contains the token only when the token is part of the fixed text.
C7_DebugIndependentOfToken ==
    shown.tag = "Some" =>
        \A x \in Strings :
            LET h == SecretStringNew(x)
            IN  /\ DebugSecret(h) = shown.val.secretText
                /\ DebugConfig([shown.val.cfg EXCEPT !.access_token = h]) = shown.val.text

C7_Witness ==
    /\ shown.tag = "Some"
    /\ ExposeSecret(shown.val.cfg.access_token) = <<"a", "REDACTED">>
    /\ ~IsSubstring(ExposeSecret(shown.val.cfg.access_token), shown.val.text)

\* C8: the error returned when the credential variable is absent identifies
\* the variable name TRADIER_API_ACCESS_TOKEN.
C8_ErrorNamesVariable ==
    \A t \in Tasks :
        (Returned(t) /\ atLookup[t] = Some(Unset)) =>
            /\ result[t].tag = "Err"
            /\ Identifies(result[t].err, TokenVar)

\* C9: two concurrent load_from_env calls return equal results under every
\* interleaving; each result is the one the call returns when run alone
\* from the initial environment, and a further call would return it again.
C9_ConcurrentLoadsAgree ==
    /\ \A t, u \in Tasks : (Returned(t) /\ Returned(u)) => result[t] = result[u]
    /\ \A t \in Tasks :
          Returned(t) =>
              /\ result[t] = LoadFromEnv(env0, file).result
              /\ result[t] = LoadFromEnv(env, file).result

C9_Witness ==
    /\ \A t \in Tasks : Returned(t) /\ result[t].tag = "Ok"
    /\ env # env0
    /\ Len(file) = 2
    /\ file[1].kind = "pair" /\ file[2].kind = "pair"
    /\ file[1].key = TokenVar /\ file[2].key = TokenVar
    /\ file[1].value # file[2].value

\* C10: assigning config.endpoint makes the endpoint read as the assigned
\* string, borrowed or owned, and leaves the revealed token as it was.
C10_EndpointAssignment ==
    [][(config.tag = "Ok" /\ assigned'.tag = "Some"
            /\ <<config, assigned>>' # <<config, assigned>>) =>
          /\ config'.tag = "Ok"
          /\ Deref(config'.cfg.endpoint) = Deref(assigned'.val)
          /\ ExposeSecret(config'.cfg.access_token) = ExposeSecret(config.cfg.access_token)]_vars

C10_Witness ==
    /\ loaded.tag = "Ok"
    /\ assigned = Some(Owned(ProductionUrl))
    /\ config.tag = "Ok"
    /\ Deref(config.cfg.endpoint) = ProductionUrl
    /\ ExposeSecret(config.cfg.access_token) = ExposeSecret(loaded.cfg.access_token)
    /\ ExposeSecret(config.cfg.access_token) # <<>>

====
